---- MODULE Spec2Model ----
(***************************************************************************)
(* Model of src/proxy.py: the Anthropic "Messages" -> OpenAI-compatible    *)
(* chat-completions proxy.  The request translator (convert_messages,      *)
(* convert_tools, token clamping), the response translator                 *)
(* (convert_tool_calls_to_anthropic, stop_reason) and the POST             *)
(* /v1/messages handler `proxy` are translated from the source.            *)
(*                                                                         *)
(* Python values are represented as follows.                               *)
(*   str            a TLA+ string                                          *)
(*   Optional[T]    [isNone |-> BOOLEAN, v |-> T]                          *)
(*   JSON value     [tag, keys, vals]: an object is its key sequence and   *)
(*                  its (integer) value sequence, an array its vals, a     *)
(*                  string the single element of keys, a number vals[1]    *)
(*   dict / model   a record with the field names of the source            *)
(***************************************************************************)
EXTENDS Integers, Sequences, FiniteSets, TLC

VARIABLES
    pc,            \* per request task: position in the request's handling
    raw,           \* per task: the inbound JSON payload as received
    request,       \* per task: the validated MessagesRequest (proxy's argument)
    locals,        \* per task: openai_messages, tools, max_tokens of proxy()
    upstreamArgs,  \* per task: keyword arguments of client.chat.completions.create
    calls,         \* per task: number of invocations of the upstream capability
    completion,    \* per task: what the upstream call returned
    response,      \* per task: the dict returned by proxy()
    outcome,       \* per task: "pending", "response" or the failure raised
    trace,         \* per task: the steps executed so far, in order
    cm_pc,         \* convert_messages harness: "in" or "out"
    cm_in,         \* convert_messages harness: the argument
    cm_out         \* convert_messages harness: the returned list

vars == <<pc, raw, request, locals, upstreamArgs, calls, completion, response,
          outcome, trace, cm_pc, cm_in, cm_out>>

proxyVars == <<pc, raw, request, locals, upstreamArgs, calls, completion,
               response, outcome, trace>>

cmVars == <<cm_pc, cm_in, cm_out>>

----------------------------------------------------------------------------
(* Bounds of the model *)

MaxTasks == 2
MaxMessages == 2
MaxBlocks == 2
MaxCalls == 2

(* Configuration of the program *)

GROQ_MODEL == "moonshotai/kimi-k2-instruct"
GROQ_MAX_OUTPUT_TOKENS == 16384
DEFAULT_MAX_TOKENS == 1024

----------------------------------------------------------------------------
(* Python values *)

None == [isNone |-> TRUE, v |-> 0]
Some(x) == [isNone |-> FALSE, v |-> x]
NoneStr == [isNone |-> TRUE, v |-> ""]
NoneSeq == [isNone |-> TRUE, v |-> <<>>]

Min(a, b) == IF a <= b THEN a ELSE b

\* BoundedSeq(S, n): the sequences over S of length at most n
BoundedSeq(S, n) == UNION {[1..k -> S] : k \in 0..n}

\* sep.join(parts)
RECURSIVE Join(_, _)
Join(parts, sep) ==
    IF Len(parts) = 0 THEN ""
    ELSE IF Len(parts) = 1 THEN parts[1]
    ELSE parts[1] \o sep \o Join(Tail(parts), sep)

----------------------------------------------------------------------------
(* JSON *)

JObject(ks, vs) == [tag |-> "object", keys |-> ks, vals |-> vs]
JArray(vs) == [tag |-> "array", keys |-> <<>>, vals |-> vs]
JString(s) == [tag |-> "string", keys |-> <<s>>, vals |-> <<>>]
JNumber(n) == [tag |-> "number", keys |-> <<>>, vals |-> <<n>>]
JNull == [tag |-> "null", keys |-> <<>>, vals |-> <<>>]

JsonObjects == {JObject(<<>>, <<>>), JObject(<<"a">>, <<1>>),
                JObject(<<"a", "b">>, <<1, 2>>)}

JsonValues == JsonObjects \cup {JArray(<<1, 2>>), JString("ok"), JNumber(3), JNull}

\* the JSON text of v with the given item and key separators
json_encode(v, item_sep, key_sep) ==
    CASE v.tag = "object" ->
           "{" \o Join([i \in 1..Len(v.keys) |->
                          "\"" \o v.keys[i] \o "\"" \o key_sep \o ToString(v.vals[i])],
                       item_sep) \o "}"
      [] v.tag = "array" ->
           "[" \o Join([i \in 1..Len(v.vals) |-> ToString(v.vals[i])], item_sep) \o "]"
      [] v.tag = "string" -> "\"" \o v.keys[1] \o "\""
      [] v.tag = "number" -> ToString(v.vals[1])
      [] OTHER -> "null"

\* json.dumps(v): Python's default separators
json_dumps(v) == json_encode(v, ", ", ": ")

\* the separator styles a JSON text may be written in
JsonStyles == {<<", ", ": ">>, <<",", ":">>}

\* json.loads(s): the value whose JSON text s is, or JSONDecodeError
json_loads(s) ==
    IF \E v \in JsonValues, st \in JsonStyles : json_encode(v, st[1], st[2]) = s
    THEN [ok |-> TRUE,
          value |-> CHOOSE v \in JsonValues :
                      \E st \in JsonStyles : json_encode(v, st[1], st[2]) = s]
    ELSE [ok |-> FALSE, value |-> JNull]

----------------------------------------------------------------------------
(* Anthropic schema *)

ContentBlock(t) ==
    [type |-> "text", text |-> t, id |-> "", name |-> "", input |-> JNull,
     tool_use_id |-> "", content |-> JNull]

ToolUseBlock(i, n, inp) ==
    [type |-> "tool_use", text |-> "", id |-> i, name |-> n, input |-> inp,
     tool_use_id |-> "", content |-> JNull]

ToolResultBlock(i, c) ==
    [type |-> "tool_result", text |-> "", id |-> "", name |-> "", input |-> JNull,
     tool_use_id |-> i, content |-> c]

StrContent(s) == [isStr |-> TRUE, text |-> s, blocks |-> <<>>]
BlockContent(bs) == [isStr |-> FALSE, text |-> "", blocks |-> bs]

Message(r, c) == [role |-> r, content |-> c]

Tool(n, d, s) == [name |-> n, description |-> d, input_schema |-> s]

----------------------------------------------------------------------------
(* Conversion helpers *)

\* mutant of RenderBlock: the tool_result branch is missing
RenderBlock_NoToolResult(block) ==
    IF block.type = "text" THEN <<block.text>>
    ELSE IF block.type = "tool_use"
    THEN <<"[Tool Use: " \o block.name \o "] " \o json_dumps(block.input)>>
    ELSE <<>>

\* the fragment appended to `parts` for one block (the body of the inner loop)
RenderBlock(block) ==
    IF block.type = "text" THEN <<block.text>>
    ELSE IF block.type = "tool_use"
    THEN <<"[Tool Use: " \o block.name \o "] " \o json_dumps(block.input)>>
    ELSE IF block.type = "tool_result"
    THEN <<"<tool_result>" \o json_dumps(block.content) \o "</tool_result>">>
    ELSE <<>>

\* parts after the inner loop over m.content
RECURSIVE RenderParts(_)
RenderParts(blocks) ==
    IF blocks = <<>> THEN <<>>
    ELSE RenderBlock(Head(blocks)) \o RenderParts(Tail(blocks))

\* the dict appended to `converted` for one message
ConvertMessage(m) ==
    [role |-> m.role,
     content |-> IF m.content.isStr THEN m.content.text
                 ELSE Join(RenderParts(m.content.blocks), "\n")]

RECURSIVE convert_messages(_)
convert_messages(messages) ==
    IF messages = <<>> THEN <<>>
    ELSE <<ConvertMessage(Head(messages))>> \o convert_messages(Tail(messages))

convert_tools(tools) ==
    [i \in 1..Len(tools) |->
        [type |-> "function",
         function |-> [name |-> tools[i].name,
                       description |-> IF tools[i].description.isNone
                                          \/ tools[i].description.v = ""
                                       THEN "" ELSE tools[i].description.v,
                       parameters |-> tools[i].input_schema]]]

RECURSIVE convert_tool_calls_prepending(_)
\* mutant of convert_tool_calls_to_anthropic: content.insert(0, ...) for content.append
convert_tool_calls_prepending(tool_calls) ==
    IF tool_calls = <<>> THEN [ok |-> TRUE, content |-> <<>>]
    ELSE LET call == Head(tool_calls)
             fn == call.function
             arguments == json_loads(fn.arguments)
             rest == convert_tool_calls_prepending(Tail(tool_calls))
         IN  IF ~arguments.ok \/ ~rest.ok
             THEN [ok |-> FALSE, content |-> <<>>]
             ELSE [ok |-> TRUE,
                   content |-> rest.content
                               \o <<[type |-> "tool_use", id |-> call.id,
                                      name |-> fn.name, input |-> arguments.value]>>]

RECURSIVE convert_tool_calls_skipping(_)
\* mutant of convert_tool_calls_to_anthropic: a call whose arguments do not parse
\* is skipped (try/except around json.loads with continue)
convert_tool_calls_skipping(tool_calls) ==
    IF tool_calls = <<>> THEN [ok |-> TRUE, content |-> <<>>]
    ELSE LET call == Head(tool_calls)
             fn == call.function
             arguments == json_loads(fn.arguments)
             rest == convert_tool_calls_skipping(Tail(tool_calls))
         IN  IF ~arguments.ok THEN rest
             ELSE [ok |-> TRUE,
                   content |-> <<[type |-> "tool_use", id |-> call.id,
                                   name |-> fn.name, input |-> arguments.value]>>
                               \o rest.content]

RECURSIVE convert_tool_calls_to_anthropic(_)
\* [ok, content]: ok is FALSE when json.loads raised on some call's arguments
convert_tool_calls_to_anthropic(tool_calls) ==
    IF tool_calls = <<>> THEN [ok |-> TRUE, content |-> <<>>]
    ELSE LET call == Head(tool_calls)
             fn == call.function
             arguments == json_loads(fn.arguments)
             rest == convert_tool_calls_to_anthropic(Tail(tool_calls))
         IN  IF ~arguments.ok \/ ~rest.ok
             THEN [ok |-> FALSE, content |-> <<>>]
             ELSE [ok |-> TRUE,
                   content |-> <<[type |-> "tool_use", id |-> call.id,
                                   name |-> fn.name, input |-> arguments.value]>>
                               \o rest.content]

----------------------------------------------------------------------------
(* Inbound payloads and their validation against the schema *)

\* a field of the inbound JSON object: absent, null, or a value of some JSON kind
Omitted == [kind |-> "omitted", n |-> 0, b |-> FALSE, s |-> ""]
Null == [kind |-> "null", n |-> 0, b |-> FALSE, s |-> ""]
IntField(i) == [kind |-> "int", n |-> i, b |-> FALSE, s |-> ""]
BoolField(x) == [kind |-> "bool", n |-> 0, b |-> x, s |-> ""]
StrField(x) == [kind |-> "str", n |-> 0, b |-> FALSE, s |-> x]

Roles == {"user", "assistant"}
BlockTypes == {"text", "tool_use", "tool_result"}

\* Message: role is one of the two literals, every block has a known type
MessageOk(m) ==
    /\ m.role \in Roles
    /\ m.content.isStr \/ \A i \in 1..Len(m.content.blocks) :
                              m.content.blocks[i].type \in BlockTypes

\* MessagesRequest(**payload): [ok, value], ok FALSE on a ValidationError
\* (temperature is held in tenths: the default 0.7 is 7)
MessagesRequest(payload) ==
    IF /\ \A i \in 1..Len(payload.messages) : MessageOk(payload.messages[i])
       /\ payload.max_tokens.kind \in {"omitted", "null", "int"}
       /\ payload.temperature.kind \in {"omitted", "null", "int"}
       /\ payload.stream.kind \in {"omitted", "null", "bool"}
       /\ payload.tool_choice.kind \in {"omitted", "null", "str"}
    THEN [ok |-> TRUE,
          value |->
            [model |-> payload.model,
             messages |-> payload.messages,
             max_tokens |-> CASE payload.max_tokens.kind = "omitted" ->
                                   Some(DEFAULT_MAX_TOKENS)
                              [] payload.max_tokens.kind = "null" -> None
                              [] OTHER -> Some(payload.max_tokens.n),
             temperature |-> CASE payload.temperature.kind = "omitted" -> Some(7)
                               [] payload.temperature.kind = "null" -> None
                               [] OTHER -> Some(payload.temperature.n),
             stream |-> CASE payload.stream.kind = "omitted" -> Some(FALSE)
                          [] payload.stream.kind = "null" ->
                               [isNone |-> TRUE, v |-> FALSE]
                          [] OTHER -> Some(payload.stream.b),
             tools |-> payload.tools,
             tool_choice |-> CASE payload.tool_choice.kind = "omitted" -> Some("auto")
                               [] payload.tool_choice.kind = "null" -> NoneStr
                               [] OTHER -> Some(payload.tool_choice.s)]]
    ELSE [ok |-> FALSE, value |-> None]

----------------------------------------------------------------------------
(* Inputs *)

TextBlocks == {ContentBlock("hi")}
ToolUseBlocks == {ToolUseBlock("toolu_1", "get_weather", JObject(<<"a">>, <<1>>))}
ToolResultBlocks == {ToolResultBlock("toolu_1", JString("ok"))}
Blocks == TextBlocks \cup ToolUseBlocks \cup ToolResultBlocks

\* a block whose type discriminator the schema does not know
ImageBlock == [ContentBlock("") EXCEPT !.type = "image"]

Contents == {StrContent("hello\nworld")}
            \cup {BlockContent(bs) : bs \in BoundedSeq(Blocks, MaxBlocks)}

Messages == {Message(r, c) : r \in Roles, c \in Contents}

WeatherTool == Tool("get_weather", NoneStr, JObject(<<>>, <<>>))
ClockTool == Tool("get_time", Some("current time"), JObject(<<>>, <<>>))

\* message lists of the request-handling specifications
ValidMessageLists ==
    {<<Message("user", StrContent("hi"))>>,
     <<Message("user", StrContent("weather?")),
       Message("assistant", BlockContent(<<ContentBlock("checking"),
                                           ToolUseBlock("toolu_1", "get_weather",
                                                        JObject(<<"a">>, <<1>>))>>)),
       Message("user", BlockContent(<<ToolResultBlock("toolu_1", JString("ok"))>>))>>}

InvalidMessageLists ==
    {<<Message("system", StrContent("hi"))>>,
     <<Message("user", BlockContent(<<ImageBlock>>))>>}

MaxTokensFields ==
    {Omitted, Null, StrField("many")}
    \cup {IntField(n) : n \in {-5, 0, 1, DEFAULT_MAX_TOKENS, GROQ_MAX_OUTPUT_TOKENS - 1,
                               GROQ_MAX_OUTPUT_TOKENS, GROQ_MAX_OUTPUT_TOKENS + 1,
                               100000}}

Payload(mo, ms, mt, te, st, to, tc) ==
    [model |-> mo, messages |-> ms, max_tokens |-> mt, temperature |-> te,
     stream |-> st, tools |-> to, tool_choice |-> tc]

ModelNames == {"claude-3-5-sonnet", "claude-3-opus"}

\* payloads of the single-request specification
Payloads ==
    {Payload(mo, ms, mt, te, st, to, tc) :
        mo \in ModelNames,
        ms \in ValidMessageLists \cup InvalidMessageLists,
        mt \in MaxTokensFields,
        te \in {Omitted},
        st \in {Omitted, Null, BoolField(TRUE)},
        to \in {NoneSeq, Some(<<>>), Some(<<WeatherTool, ClockTool>>)},
        tc \in {Omitted}}

\* payloads of the concurrent specification
ConcPayloads ==
    {Payload(mo, <<Message("user", StrContent("hi"))>>, Omitted, Omitted, st,
             NoneSeq, Omitted) :
        mo \in ModelNames, st \in {Omitted, BoolField(TRUE)}}
    \cup {Payload("claude-3-opus", <<Message("user", StrContent("hi"))>>,
                  IntField(100000), Omitted, Omitted, NoneSeq, Omitted),
          Payload("claude-3-opus", <<Message("system", StrContent("hi"))>>,
                  Omitted, Omitted, Omitted, NoneSeq, Omitted)}

\* upstream function-call records
Call(i, n, a) == [id |-> i, function |-> [name |-> n, arguments |-> a]]

ToolCalls == {Call("call_1", "get_weather", "{\"a\": 1}"),
              Call("call_2", "get_time", "{\"a\":1,\"b\":2}"),
              Call("call_3", "get_weather", "{bad json")}

Completion(tc, c, p, o) ==
    [message |-> [tool_calls |-> tc, content |-> c],
     usage |-> [prompt_tokens |-> p, completion_tokens |-> o]]

\* what the upstream capability may return to the single request
Completions ==
    {Completion(tc, c, 5, 1) :
        tc \in {NoneSeq, Some(<<>>)}, c \in {Some("hello"), Some(""), NoneStr}}
    \cup {Completion(Some(tc), NoneStr, 7, 3) :
            tc \in BoundedSeq(ToolCalls, MaxCalls) \ {<<>>}}

\* what the upstream capability may return to concurrent requests
ConcCompletions ==
    {Completion(NoneSeq, Some("hello"), 5, 1),
     Completion(Some(<<Call("call_1", "get_weather", "{\"a\": 1}")>>), NoneStr, 7, 3),
     Completion(Some(<<Call("call_3", "get_weather", "{bad json")>>), NoneStr, 7, 3)}

\* uuid.uuid4().hex[:12]
HexSuffixes == {"0123456789ab", "fedcba987654"}

----------------------------------------------------------------------------
(* The create-message operation: POST /v1/messages *)

Tasks == DOMAIN pc

Steps == <<"validate", "translate_request", "call_upstream", "translate_response">>

\* the framework parses the body into MessagesRequest before proxy() is entered;
\* a ValidationError is answered without entering it
Validate(t, payloads) ==
    /\ pc[t] = "idle"
    /\ \E payload \in payloads :
         LET parsed == MessagesRequest(payload)
         IN  /\ raw' = [raw EXCEPT ![t] = Some(payload)]
             /\ trace' = [trace EXCEPT ![t] = Append(@, "validate")]
             /\ IF parsed.ok
                THEN /\ request' = [request EXCEPT ![t] = Some(parsed.value)]
                     /\ pc' = [pc EXCEPT ![t] = "validated"]
                     /\ UNCHANGED outcome
                ELSE /\ pc' = [pc EXCEPT ![t] = "failed"]
                     /\ outcome' = [outcome EXCEPT ![t] = "ValidationError"]
                     /\ UNCHANGED request
    /\ UNCHANGED <<locals, upstreamArgs, calls, completion, response>>
    /\ UNCHANGED cmVars

\* mutant of ClampMaxTokens: the min() is missing
ClampMaxTokens_NoMin(max_tokens) ==
    IF max_tokens.isNone \/ max_tokens.v = 0 THEN GROQ_MAX_OUTPUT_TOKENS ELSE max_tokens.v

\* min(request.max_tokens or GROQ_MAX_OUTPUT_TOKENS, GROQ_MAX_OUTPUT_TOKENS)
ClampMaxTokens(max_tokens) ==
    Min(IF max_tokens.isNone \/ max_tokens.v = 0
        THEN GROQ_MAX_OUTPUT_TOKENS ELSE max_tokens.v,
        GROQ_MAX_OUTPUT_TOKENS)

\* proxy(), up to the upstream call: the request translation
TranslateRequest(t) ==
    /\ pc[t] = "validated"
    /\ LET req == request[t].v
       IN  locals' = [locals EXCEPT ![t] = Some(
              [openai_messages |-> convert_messages(req.messages),
               tools |-> IF ~req.tools.isNone /\ req.tools.v # <<>>
                         THEN Some(convert_tools(req.tools.v)) ELSE NoneSeq,
               max_tokens |-> ClampMaxTokens(req.max_tokens)])]
    /\ pc' = [pc EXCEPT ![t] = "translated"]
    /\ trace' = [trace EXCEPT ![t] = Append(@, "translate_request")]
    /\ UNCHANGED <<raw, request, upstreamArgs, calls, completion, response, outcome>>
    /\ UNCHANGED cmVars

\* mutant of CreateArgs: the caller's model is forwarded
CreateArgs_RequestModel(req, loc) ==
    [model |-> req.model,
     messages |-> loc.openai_messages,
     temperature |-> req.temperature,
     max_tokens |-> loc.max_tokens,
     tools |-> loc.tools,
     tool_choice |-> req.tool_choice]

\* the keyword arguments of client.chat.completions.create
CreateArgs(req, loc) ==
    [model |-> GROQ_MODEL,
     messages |-> loc.openai_messages,
     temperature |-> req.temperature,
     max_tokens |-> loc.max_tokens,
     tools |-> loc.tools,
     tool_choice |-> req.tool_choice]

\* mutant of CallUpstream: the upstream call is made before the request translation
CallUpstream_BeforeTranslate(t) ==
    /\ pc[t] = "validated"
    /\ LET req == request[t].v
       IN  upstreamArgs' = [upstreamArgs EXCEPT ![t] = Some(
              [model |-> GROQ_MODEL,
               messages |-> <<>>,
               temperature |-> req.temperature,
               max_tokens |-> GROQ_MAX_OUTPUT_TOKENS,
               tools |-> NoneSeq,
               tool_choice |-> req.tool_choice])]
    /\ calls' = [calls EXCEPT ![t] = @ + 1]
    /\ pc' = [pc EXCEPT ![t] = "awaiting"]
    /\ trace' = [trace EXCEPT ![t] = Append(@, "call_upstream")]
    /\ UNCHANGED <<raw, request, locals, completion, response, outcome>>
    /\ UNCHANGED cmVars

\* proxy() invokes the external completion capability
CallUpstream(t) ==
    /\ pc[t] = "translated"
    /\ upstreamArgs' = [upstreamArgs EXCEPT ![t] = Some(CreateArgs(request[t].v, locals[t].v))]
    /\ calls' = [calls EXCEPT ![t] = @ + 1]
    /\ pc' = [pc EXCEPT ![t] = "awaiting"]
    /\ trace' = [trace EXCEPT ![t] = Append(@, "call_upstream")]
    /\ UNCHANGED <<raw, request, locals, completion, response, outcome>>
    /\ UNCHANGED cmVars

\* the external capability returns a completion
UpstreamReturn(t, completions) ==
    /\ pc[t] = "awaiting"
    /\ \E c \in completions : completion' = [completion EXCEPT ![t] = Some(c)]
    /\ pc' = [pc EXCEPT ![t] = "returned"]
    /\ UNCHANGED <<raw, request, locals, upstreamArgs, calls, response, outcome, trace>>
    /\ UNCHANGED cmVars

\* mutant of UpstreamFail: the exception is caught and the call is made again
UpstreamFail_Retry(t) ==
    /\ pc[t] = "awaiting"
    /\ calls[t] < 3
    /\ pc' = [pc EXCEPT ![t] = "translated"]
    /\ UNCHANGED <<raw, request, locals, upstreamArgs, calls, completion, response,
                   outcome, trace>>
    /\ UNCHANGED cmVars

\* the external capability raises: the exception leaves proxy() uncaught
UpstreamFail(t) ==
    /\ pc[t] = "awaiting"
    /\ pc' = [pc EXCEPT ![t] = "failed"]
    /\ outcome' = [outcome EXCEPT ![t] = "UpstreamFailure"]
    /\ UNCHANGED <<raw, request, locals, upstreamArgs, calls, completion, response, trace>>
    /\ UNCHANGED cmVars

\* mutant of BuildResponse: `if msg.tool_calls is not None` for `if msg.tool_calls`
BuildResponse_IsNotNone(c, hex) ==
    LET msg == c.message
        has_calls == ~msg.tool_calls.isNone
        converted == IF has_calls THEN convert_tool_calls_to_anthropic(msg.tool_calls.v)
                     ELSE [ok |-> TRUE, content |-> <<[type |-> "text", text |-> msg.content]>>]
    IN  [ok |-> converted.ok,
         value |-> [id |-> "msg_" \o hex,
                    model |-> "groq/" \o GROQ_MODEL,
                    role |-> "assistant",
                    type |-> "message",
                    content |-> converted.content,
                    stop_reason |-> IF has_calls THEN "tool_use" ELSE "end_turn",
                    stop_sequence |-> None,
                    usage |-> [input_tokens |-> c.usage.prompt_tokens,
                               output_tokens |-> c.usage.completion_tokens]]]

\* the dict proxy() returns for a completion, or the failure of the translation
BuildResponse(c, hex) ==
    LET msg == c.message
        has_calls == ~msg.tool_calls.isNone /\ msg.tool_calls.v # <<>>
        converted == IF has_calls THEN convert_tool_calls_to_anthropic(msg.tool_calls.v)
                     ELSE [ok |-> TRUE, content |-> <<[type |-> "text", text |-> msg.content]>>]
    IN  [ok |-> converted.ok,
         value |-> [id |-> "msg_" \o hex,
                    model |-> "groq/" \o GROQ_MODEL,
                    role |-> "assistant",
                    type |-> "message",
                    content |-> converted.content,
                    stop_reason |-> IF has_calls THEN "tool_use" ELSE "end_turn",
                    stop_sequence |-> None,
                    usage |-> [input_tokens |-> c.usage.prompt_tokens,
                               output_tokens |-> c.usage.completion_tokens]]]

\* mutant of TranslateResponse: the completion is kept in a module-level global,
\* so the task reads whichever completion is there
TranslateResponse_SharedCompletion(t) ==
    /\ pc[t] = "returned"
    /\ trace' = [trace EXCEPT ![t] = Append(@, "translate_response")]
    /\ \E hex \in HexSuffixes, u \in {x \in Tasks : ~completion[x].isNone} :
         LET built == BuildResponse(completion[u].v, hex)
         IN  IF built.ok
             THEN /\ response' = [response EXCEPT ![t] = Some(built.value)]
                  /\ outcome' = [outcome EXCEPT ![t] = "response"]
                  /\ pc' = [pc EXCEPT ![t] = "done"]
             ELSE /\ outcome' = [outcome EXCEPT ![t] = "JSONDecodeError"]
                  /\ pc' = [pc EXCEPT ![t] = "failed"]
                  /\ UNCHANGED response
    /\ UNCHANGED <<raw, request, locals, upstreamArgs, calls, completion>>
    /\ UNCHANGED cmVars

\* proxy(), after the upstream call: the response translation and the return
TranslateResponse(t) ==
    /\ pc[t] = "returned"
    /\ trace' = [trace EXCEPT ![t] = Append(@, "translate_response")]
    /\ \E hex \in HexSuffixes :
         LET built == BuildResponse(completion[t].v, hex)
         IN  IF built.ok
             THEN /\ response' = [response EXCEPT ![t] = Some(built.value)]
                  /\ outcome' = [outcome EXCEPT ![t] = "response"]
                  /\ pc' = [pc EXCEPT ![t] = "done"]
             ELSE /\ outcome' = [outcome EXCEPT ![t] = "JSONDecodeError"]
                  /\ pc' = [pc EXCEPT ![t] = "failed"]
                  /\ UNCHANGED response
    /\ UNCHANGED <<raw, request, locals, upstreamArgs, calls, completion>>
    /\ UNCHANGED cmVars

----------------------------------------------------------------------------
(* convert_messages applied to an argument drawn from the bounded inputs *)

ConvertMessages ==
    /\ cm_pc = "in"
    /\ cm_out' = convert_messages(cm_in)
    /\ cm_pc' = "out"
    /\ UNCHANGED cm_in
    /\ UNCHANGED proxyVars

----------------------------------------------------------------------------
(* Specifications *)

InitTasks(T) ==
    /\ pc = [t \in T |-> "idle"]
    /\ raw = [t \in T |-> None]
    /\ request = [t \in T |-> None]
    /\ locals = [t \in T |-> None]
    /\ upstreamArgs = [t \in T |-> None]
    /\ calls = [t \in T |-> 0]
    /\ completion = [t \in T |-> None]
    /\ response = [t \in T |-> None]
    /\ outcome = [t \in T |-> "pending"]
    /\ trace = [t \in T |-> <<>>]

InitNoConvert ==
    /\ cm_pc = "out"
    /\ cm_in = <<>>
    /\ cm_out = <<>>

\* one request, every payload and every completion of the bounded inputs
Init == InitTasks({1}) /\ InitNoConvert

Next ==
    \/ \E t \in Tasks : Validate(t, Payloads)
    \/ \E t \in Tasks : TranslateRequest(t)
    \/ \E t \in Tasks : CallUpstream(t)
    \/ \E t \in Tasks : UpstreamReturn(t, Completions)
    \/ \E t \in Tasks : UpstreamFail(t)
    \/ \E t \in Tasks : TranslateResponse(t)

Spec == Init /\ [][Next]_vars

\* MaxTasks requests in flight at once, their steps interleaved
InitConc == InitTasks(1..MaxTasks) /\ InitNoConvert

NextConc ==
    \/ \E t \in Tasks : Validate(t, ConcPayloads)
    \/ \E t \in Tasks : TranslateRequest(t)
    \/ \E t \in Tasks : CallUpstream(t)
    \/ \E t \in Tasks : UpstreamReturn(t, ConcCompletions)
    \/ \E t \in Tasks : UpstreamFail(t)
    \/ \E t \in Tasks : TranslateResponse(t)

SpecConc == InitConc /\ [][NextConc]_vars

\* convert_messages alone
InitConvert ==
    /\ InitTasks({})
    /\ cm_pc = "in"
    /\ cm_in \in BoundedSeq(Messages, MaxMessages)
    /\ cm_out = <<>>

NextConvert == ConvertMessages

SpecConvert == InitConvert /\ [][NextConvert]_vars

----------------------------------------------------------------------------
(* Properties *)

Responded(t) == outcome[t] = "response"
Called(t) == calls[t] > 0
HasCalls(c) == ~c.message.tool_calls.isNone /\ Len(c.message.tool_calls.v) >= 1

\* s is a JSON text of the value v
IsJsonTextOf(s, v) == \E st \in JsonStyles : json_encode(v, st[1], st[2]) = s
ValidJson(s) == \E v \in JsonValues : IsJsonTextOf(s, v)

\* C1: when the completion carries one or more function calls, the response has
\* stop_reason "tool_use" and its content is one ToolUse block per call, in the
\* calls' order, block i with the id and the name of call i and the parsed
\* arguments of call i as its input; there is no Text block.
C1_ToolUseBlocksMirrorCalls ==
    \A t \in Tasks :
        (Responded(t) /\ HasCalls(completion[t].v)) =>
            LET tool_calls == completion[t].v.message.tool_calls.v
                content == response[t].v.content
            IN  /\ response[t].v.stop_reason = "tool_use"
                /\ Len(content) = Len(tool_calls)
                /\ \A i \in 1..Len(tool_calls) :
                     /\ content[i].type = "tool_use"
                     /\ DOMAIN content[i] = {"type", "id", "name", "input"}
                     /\ content[i].id = tool_calls[i].id
                     /\ content[i].name = tool_calls[i].function.name
                     /\ content[i].input \in JsonValues
                     /\ IsJsonTextOf(tool_calls[i].function.arguments, content[i].input)

C1_Witness ==
    \E t \in Tasks :
        /\ Responded(t)
        /\ HasCalls(completion[t].v)
        /\ Len(completion[t].v.message.tool_calls.v) = 2
        /\ completion[t].v.message.tool_calls.v[1] # completion[t].v.message.tool_calls.v[2]

\* C2: when the completion carries no function call (tool_calls None or empty),
\* the response content is exactly one Text block wrapping the completion's text
\* and stop_reason is "end_turn"; in every response stop_reason is "tool_use"
\* exactly when the content consists of ToolUse blocks, and no response holds a
\* ToolResult block.
C2_TextBlockWhenNoCalls ==
    \A t \in Tasks :
        Responded(t) =>
            LET c == completion[t].v
                content == response[t].v.content
                all_tool_use == /\ Len(content) >= 1
                                /\ \A i \in 1..Len(content) : content[i].type = "tool_use"
            IN  /\ ~HasCalls(c) =>
                     /\ Len(content) = 1
                     /\ content[1].type = "text"
                     /\ content[1].text = c.message.content
                     /\ response[t].v.stop_reason = "end_turn"
                /\ response[t].v.stop_reason \in {"end_turn", "tool_use"}
                /\ (response[t].v.stop_reason = "tool_use") <=> all_tool_use
                /\ \A i \in 1..Len(content) : content[i].type # "tool_result"

C2_Witness ==
    \E t \in Tasks :
        /\ Responded(t)
        /\ ~completion[t].v.message.tool_calls.isNone
        /\ completion[t].v.message.tool_calls.v = <<>>
        /\ completion[t].v.message.content = Some("hello")

\* C3: a request whose max_tokens exceeds the ceiling is not rejected for it and
\* reaches the upstream call with max_tokens equal to the ceiling, not to the
\* requested value; no upstream call is ever made with more than the ceiling.
C3_MaxTokensClamped ==
    \A t \in Tasks :
        /\ Called(t) => upstreamArgs[t].v.max_tokens <= GROQ_MAX_OUTPUT_TOKENS
        /\ (Called(t) /\ ~request[t].v.max_tokens.isNone
              /\ request[t].v.max_tokens.v > GROQ_MAX_OUTPUT_TOKENS) =>
                /\ upstreamArgs[t].v.max_tokens = GROQ_MAX_OUTPUT_TOKENS
                /\ upstreamArgs[t].v.max_tokens # request[t].v.max_tokens.v
        /\ (outcome[t] = "ValidationError" /\ raw[t].v.max_tokens.kind = "int"
              /\ raw[t].v.max_tokens.n > GROQ_MAX_OUTPUT_TOKENS) =>
                ~MessagesRequest([raw[t].v EXCEPT !.max_tokens = Omitted]).ok

C3_Witness ==
    \E t \in Tasks :
        /\ Responded(t)
        /\ raw[t].v.max_tokens = IntField(100000)
        /\ upstreamArgs[t].v.max_tokens = 16384

\* C4: when some function call of the completion has arguments that are not
\* valid JSON, at whatever position, the response translation ends in a failure
\* and no response is returned.
C4_MalformedArgumentsFailWhole ==
    \A t \in Tasks :
        (/\ pc[t] \in {"done", "failed"}
         /\ ~completion[t].isNone
         /\ HasCalls(completion[t].v)
         /\ \E i \in 1..Len(completion[t].v.message.tool_calls.v) :
               ~ValidJson(completion[t].v.message.tool_calls.v[i].function.arguments)) =>
            /\ outcome[t] = "JSONDecodeError"
            /\ pc[t] = "failed"
            /\ response[t].isNone

C4_Witness ==
    \E t \in Tasks :
        /\ outcome[t] = "JSONDecodeError"
        /\ Len(completion[t].v.message.tool_calls.v) = 2
        /\ ValidJson(completion[t].v.message.tool_calls.v[1].function.arguments)
        /\ ~ValidJson(completion[t].v.message.tool_calls.v[2].function.arguments)

\* the rendering of one block, as the contract of convert_messages states it
C7_Fragment(b) ==
    CASE b.type = "text" -> b.text
      [] b.type = "tool_use" -> "[Tool Use: " \o b.name \o "] " \o json_dumps(b.input)
      [] b.type = "tool_result" ->
           "<tool_result>" \o json_dumps(b.content) \o "</tool_result>"

\* the fragments, each but the first preceded by one newline
RECURSIVE C7_Joined(_)
C7_Joined(frags) ==
    IF frags = <<>> THEN ""
    ELSE IF Len(frags) = 1 THEN frags[1]
    ELSE C7_Joined(SubSeq(frags, 1, Len(frags) - 1)) \o "\n" \o frags[Len(frags)]

\* C7: convert_messages returns one flat message per input message, in order
\* and with the same role; a string content is returned unchanged, a block list
\* as the rendered fragments of all its blocks joined by a newline in block order.
C7_ConvertMessagesFlattens ==
    cm_pc = "out" =>
        /\ Len(cm_out) = Len(cm_in)
        /\ \A i \in 1..Len(cm_in) :
             /\ DOMAIN cm_out[i] = {"role", "content"}
             /\ cm_out[i].role = cm_in[i].role
             /\ cm_out[i].content =
                  IF cm_in[i].content.isStr THEN cm_in[i].content.text
                  ELSE C7_Joined([j \in 1..Len(cm_in[i].content.blocks) |->
                                    C7_Fragment(cm_in[i].content.blocks[j])])

C7_Witness ==
    /\ cm_pc = "out"
    /\ Len(cm_in) = 2
    /\ cm_in[1] = Message("user", StrContent("hello\nworld"))
    /\ cm_in[2].role = "assistant"
    /\ ~cm_in[2].content.isStr
    /\ Len(cm_in[2].content.blocks) = 2
    /\ cm_in[2].content.blocks[1].type = "tool_use"
    /\ cm_in[2].content.blocks[2].type = "tool_result"
    /\ cm_out[2].content =
         "[Tool Use: get_weather] {\"a\": 1}\n<tool_result>\"ok\"</tool_result>"

\* C5: the upstream capability is invoked at most once per request; when it
\* fails the request ends in a failure after exactly one invocation and without
\* a response.
C5_UpstreamFailurePropagatesNoRetry ==
    \A t \in Tasks :
        /\ calls[t] <= 1
        /\ outcome[t] = "UpstreamFailure" =>
              /\ calls[t] = 1
              /\ pc[t] = "failed"
              /\ response[t].isNone

C5_Witness ==
    \E t \in Tasks : outcome[t] = "UpstreamFailure" /\ calls[t] = 1

\* C6: the steps of one request run in the order validate, translate-request,
\* call-upstream, translate-response, each after the previous one succeeded: a
\* request that fails validation is never translated nor sent upstream, and the
\* response translation starts only once the upstream call returned a completion.
C6_StepsInOrder ==
    \A t \in Tasks :
        /\ Len(trace[t]) <= Len(Steps)
        /\ trace[t] = SubSeq(Steps, 1, Len(trace[t]))
        /\ Len(trace[t]) >= 2 => ~request[t].isNone
        /\ Len(trace[t]) >= 3 => ~locals[t].isNone /\ calls[t] = 1
        /\ Len(trace[t]) >= 4 => ~completion[t].isNone
        /\ Len(trace[t]) < 3 => calls[t] = 0 /\ upstreamArgs[t].isNone
        /\ outcome[t] = "ValidationError" =>
              /\ trace[t] = <<"validate">>
              /\ request[t].isNone /\ locals[t].isNone /\ completion[t].isNone
        /\ outcome[t] = "UpstreamFailure" =>
              /\ Len(trace[t]) = 3
              /\ completion[t].isNone

C6_Witness ==
    \E t \in Tasks : Responded(t) /\ trace[t] = Steps

\* r1 and r2 differ in nothing but model and stream
SameButModelAndStream(r1, r2) ==
    [r1 EXCEPT !.model = "", !.stream = Some(FALSE)]
      = [r2 EXCEPT !.model = "", !.stream = Some(FALSE)]

\* C8: two accepted requests that differ only in model and stream are sent
\* upstream with identical arguments, the model always the configured one, and,
\* given the same completion, end the same way with responses equal but for id.
C8_ModelAndStreamIgnored ==
    \A t1, t2 \in Tasks :
        (/\ ~request[t1].isNone /\ ~request[t2].isNone
         /\ SameButModelAndStream(request[t1].v, request[t2].v)) =>
            /\ (Called(t1) /\ Called(t2)) =>
                  /\ upstreamArgs[t1].v = upstreamArgs[t2].v
                  /\ upstreamArgs[t1].v.model = GROQ_MODEL
            /\ (/\ pc[t1] \in {"done", "failed"} /\ pc[t2] \in {"done", "failed"}
                /\ ~completion[t1].isNone /\ ~completion[t2].isNone
                /\ completion[t1].v = completion[t2].v) =>
                  /\ outcome[t1] = outcome[t2]
                  /\ Responded(t1) =>
                       [response[t1].v EXCEPT !.id = ""] = [response[t2].v EXCEPT !.id = ""]

C8_Witness ==
    \E t1, t2 \in Tasks :
        /\ Responded(t1) /\ Responded(t2)
        /\ request[t1].v.model # request[t2].v.model
        /\ request[t1].v.stream # request[t2].v.stream
        /\ SameButModelAndStream(request[t1].v, request[t2].v)
        /\ completion[t1].v = completion[t2].v
        /\ response[t1].v.id # response[t2].v.id

\* what a request handled alone sends upstream
C9_SoloArgs(req) ==
    CreateArgs(req, [openai_messages |-> convert_messages(req.messages),
                     tools |-> IF ~req.tools.isNone /\ req.tools.v # <<>>
                               THEN Some(convert_tools(req.tools.v)) ELSE NoneSeq,
                     max_tokens |-> ClampMaxTokens(req.max_tokens)])

\* everything the model holds for task t
C9_TaskState(t) ==
    <<pc[t], raw[t], request[t], locals[t], upstreamArgs[t], calls[t],
      completion[t], response[t], outcome[t], trace[t]>>

C9_Solo ==
    \A t \in Tasks :
        /\ Called(t) => upstreamArgs[t].v = C9_SoloArgs(request[t].v)
        /\ Responded(t) =>
              \E hex \in HexSuffixes :
                 LET alone == BuildResponse(completion[t].v, hex)
                 IN  alone.ok /\ response[t].v = alone.value
        /\ (pc[t] = "failed" /\ ~completion[t].isNone) =>
              ~BuildResponse(completion[t].v, "").ok

C9_Frame ==
    \A t1, t2 \in Tasks :
        (C9_TaskState(t1)' # C9_TaskState(t1) /\ C9_TaskState(t2)' # C9_TaskState(t2))
            => t1 = t2

\* C9: with any number of requests in flight and any interleaving of their
\* steps, a request's upstream arguments are those it sends when handled alone,
\* its response (but for id) is the one its own completion yields, and no step
\* of one request changes anything of another.
C9_TasksIndependent == []C9_Solo /\ [][C9_Frame]_vars

C9_Witness ==
    \E t1, t2 \in Tasks :
        /\ t1 # t2
        /\ pc[t1] = "awaiting"
        /\ Responded(t2)
        /\ upstreamArgs[t1].v # upstreamArgs[t2].v
        /\ calls[t1] = 1 /\ calls[t2] = 1

\* C10: a request without a max_tokens value (omitted or null) is sent upstream
\* with the default 1024: the value sent is min(max_tokens or 1024, ceiling),
\* and it is a positive integer.
C10_DefaultMaxTokens ==
    \A t \in Tasks :
        Called(t) =>
            /\ raw[t].v.max_tokens.kind \in {"omitted", "null"} =>
                  upstreamArgs[t].v.max_tokens = Min(DEFAULT_MAX_TOKENS, GROQ_MAX_OUTPUT_TOKENS)
            /\ upstreamArgs[t].v.max_tokens =
                  Min(IF request[t].v.max_tokens.isNone \/ request[t].v.max_tokens.v = 0
                      THEN DEFAULT_MAX_TOKENS ELSE request[t].v.max_tokens.v,
                      GROQ_MAX_OUTPUT_TOKENS)
            /\ upstreamArgs[t].v.max_tokens > 0

====
